---- MODULE Spec2Model ----
(***************************************************************************)
(* Model of cfrac2.py: CFrac expands a positive float into a bounded       *)
(* continued fraction, CFracApprox folds the prefixes of that expansion    *)
(* back into rationals and keeps the small, accurate ones.                 *)
(*                                                                         *)
(* Python floats are IEEE-754 binary64: every operation returns the        *)
(* nearest representable value, ties to even.  The model keeps that rule   *)
(* and shortens the significand from 53 to Prec bits.  A float is the      *)
(* record [m, e] standing for m * 2^e, with m odd (or m = 0, e = 0).       *)
(***************************************************************************)
EXTENDS Integers, Sequences, FiniteSets, TLC

(* ------------------------------ bounds --------------------------------- *)

\* significand bits of the modelled float format
Prec == 24

\* input values are the floats nearest to p/q, 1 <= p, q <= MaxPQ
MaxPQ == 13

\* the fold keeps exact integers up to MaxFold; Python integers are unbounded
MaxFold == 4096

(* ------------------------- program constants --------------------------- *)

DefaultBigTerm == 1000

DefaultLenLimit == 100

SizeLimit == 1024

CentLimit == 30

\* the caller's choices for bigTerm and lenLimit, the defaults included
BigTerms == {3, DefaultBigTerm}

LenLimits == {1, 3, DefaultLenLimit}

\* further rationals p/q passed as values: a convergent of sqrt(2) whose
\* numerator exceeds SizeLimit, and the driver's pitch 2^(7/12)
ExtraValues == {<<1393, 985>>, <<1498307, 1000000>>}

(* --------------------------- float arithmetic -------------------------- *)

RECURSIVE GCD(_, _)
GCD(a, b) == IF b = 0 THEN a ELSE GCD(b, a % b)

\* number of binary digits of x >= 0
RECURSIVE BitLen(_)
BitLen(x) ==
    IF x >= 16 THEN 4 + BitLen(x \div 16)
    ELSE IF x >= 1 THEN 1 + BitLen(x \div 2)
    ELSE 0

Zero == [m |-> 0, e |-> 0]

\* the float m * 2^e with its significand made odd
RECURSIVE Canon(_, _)
Canon(m, e) ==
    IF m = 0 THEN Zero
    ELSE IF m % 16 = 0 THEN Canon(m \div 16, e + 4)
    ELSE IF m % 2 = 0 THEN Canon(m \div 2, e + 1)
    ELSE [m |-> m, e |-> e]

\* round q + r/d (0 <= r < d) to an integer, ties to even
RoundEven(q, r, d) ==
    IF 2 * r > d \/ (2 * r = d /\ q % 2 = 1) THEN q + 1 ELSE q

\* binary long division: k more quotient bits of r/d are shifted into q,
\* four at a time while four are wanted; q is then rounded on the remainder
RECURSIVE DivBits(_, _, _, _, _)
DivBits(q, r, d, k, e) ==
    IF k = 0 THEN Canon(RoundEven(q, r, d), e)
    ELSE IF k >= 4
         THEN DivBits(16 * q + ((16 * r) \div d), (16 * r) % d, d, k - 4, e - 4)
         ELSE DivBits(2 * q + ((2 * r) \div d), (2 * r) % d, d, k - 1, e - 1)

\* the float nearest to a / b, for integers a, b > 0: the quotient is taken
\* to exactly Prec significant bits and rounded to nearest, ties to even
FloatDiv(a, b) ==
    LET s  == IF a < b THEN BitLen(b) - BitLen(a) ELSE 0
        a2 == a * (2 ^ s)
        q  == a2 \div b
        r  == a2 % b
    IN  IF q = 0
        THEN DivBits(1, 2 * r - b, b, Prec - 1, 0 - s - 1)
        ELSE IF q < 2 ^ Prec
        THEN DivBits(q, r, b, Prec - BitLen(q), 0 - s)
        ELSE LET t    == BitLen(q) - Prec
                 hi   == q \div (2 ^ t)
                 lo   == q % (2 ^ t)
                 half == 2 ^ (t - 1)
                 up   == lo > half \/ (lo = half /\ (r > 0 \/ hi % 2 = 1))
             IN  Canon(IF up THEN hi + 1 ELSE hi, t)

\* 1.0 / x
Recip(x) ==
    LET y == FloatDiv(1, x.m)
    IN  Canon(y.m, y.e - x.e)

\* int(x), x >= 0
IntPart(x) ==
    IF x.e >= 0 THEN x.m * (2 ^ x.e)
    ELSE IF 0 - x.e > Prec THEN 0
    ELSE x.m \div (2 ^ (0 - x.e))

\* x - int(x): exact in floating point
FracPart(x) ==
    IF x.e >= 0 THEN Zero
    ELSE IF 0 - x.e > Prec THEN x
    ELSE Canon(x.m % (2 ^ (0 - x.e)), x.e)

\* x > 1.0
GtOne(x) == IntPart(x) >= 2 \/ (IntPart(x) = 1 /\ FracPart(x) # Zero)

\* x > 0.0
GtZero(x) == x.m > 0

(* ------------------------- cents of a ratio ---------------------------- *)

\* math.log(x, 2) * 1200 is read off a table of powers of two: entry h is
\* the least integer not below 2^(h/2400) * HalfCentUnit, h = 1..60, so that
\* hi/lo >= 2^(h/2400) exactly when floor(hi/lo * HalfCentUnit) >= entry h
HalfCentUnit == 536870912

HalfCents == <<
    537025989, 537181111, 537336277, 537491488, 537646745, 537802045,
    537957391, 538112782, 538268217, 538423698, 538579223, 538734793,
    538890408, 539046069, 539201774, 539357524, 539513319, 539669159,
    539825044, 539980974, 540136949, 540292969, 540449035, 540605145,
    540761300, 540917501, 541073747, 541230037, 541386373, 541542754,
    541699181, 541855652, 542012169, 542168731, 542325338, 542481990,
    542638688, 542795431, 542952219, 543109052, 543265931, 543422855,
    543579824, 543736839, 543893899, 544051004, 544208155, 544365351,
    544522593, 544679880, 544837212, 544994590, 545152013, 545309482,
    545466997, 545624556, 545782162, 545939812, 546097509, 546255251 >>

\* floor((q + r/d) * 2^k), four quotient bits per call while four are wanted
RECURSIVE FixBits(_, _, _, _)
FixBits(q, r, d, k) ==
    IF k = 0 THEN q
    ELSE IF k >= 4
         THEN FixBits(16 * q + ((16 * r) \div d), (16 * r) % d, d, k - 4)
         ELSE FixBits(2 * q + ((2 * r) \div d), (2 * r) % d, d, k - 1)

\* floor(hi / lo * HalfCentUnit), for lo <= hi < 2 * lo
RatioFix(hi, lo) == FixBits(1, hi - lo, lo, BitLen(HalfCentUnit) - 1)

\* position of the leading bit: 2^(Top(x)-1) <= x < 2^Top(x)
Top(x) == x.e + BitLen(x.m)

\* x / 2^k as an integer, for k no larger than x.e
Scaled(x, k) == x.m * (2 ^ (x.e - k))

\* the number of whole cents in 1200 * log2(hi/lo), hi >= lo, counted up to
\* CentLimit (larger errors are only ever compared with CentLimit); off = 0
\* truncates, off = 1 rounds to the nearest cent
CentsUpTo(hi, lo, off) ==
    IF hi >= 2 * lo THEN CentLimit
    ELSE LET fix == RatioFix(hi, lo)
         IN  Cardinality({k \in 1..CentLimit : HalfCents[2 * k - off] <= fix})

\* int((log2(c) - log2(v)) * 1200) for off = 0: truncation toward zero
CentsBetween(c, v, off) ==
    IF c = v THEN 0
    ELSE IF Top(c) - Top(v) >= 2 THEN CentLimit
    ELSE IF Top(v) - Top(c) >= 2 THEN 0 - CentLimit
    ELSE LET k == IF c.e < v.e THEN c.e ELSE v.e
             A == Scaled(c, k)
             B == Scaled(v, k)
         IN  IF A >= B THEN CentsUpTo(A, B, 0 + off)
             ELSE 0 - CentsUpTo(B, A, 0 + off)

\* the claimed error: minus the rounded difference of the logarithms
ErrCentsRounded(c, v) == 0 - CentsBetween(c, v, 1)

\* line 45: err = - int((math.log(float(f),2) - math.log(val,2)) * 1200)
ErrCents(c, v) == 0 - CentsBetween(c, v, 0)

(* --------------------------- CFracApprox parts -------------------------- *)

\* fractions.Fraction(a, b): lowest terms
Fraction(a, b) == <<a \div GCD(a, b), b \div GCD(a, b)>>

\* lines 36-41: (num,den) = (a*d+c*b, b*d), then swapped; t is an integer,
\* so c = t.numerator = t and d = t.denominator = 1
FoldStep(acc, t) ==
    LET a == acc[1]
        b == acc[2]
        c == t
        d == 1
    IN  <<b * d, a * d + c * b>>

\* lines 35-41: one step per term of the list.  den never decreases, so the
\* fold stops at a den above MaxFold: that pair fails the size test whatever
\* terms follow
RECURSIVE FoldFrom(_, _)
FoldFrom(acc, s) ==
    IF s = <<>> \/ acc[2] > MaxFold THEN acc
    ELSE FoldFrom(FoldStep(acc, Head(s)), Tail(s))

\* lines 33-34: num = 0, den = 1
Fold(s) == FoldFrom(<<0, 1>>, s)

\* list(reversed(s))
Reverse(s) == [i \in 1..Len(s) |-> s[Len(s) + 1 - i]]

\* the size test without its bound on den
SizeOKNumOnly(num, den) == num <= SizeLimit

\* line 42
SizeOK(num, den) == den <= SizeLimit /\ num <= SizeLimit

\* line 48
Accurate(err) == err * err < CentLimit * CentLimit

\* the loop left one pass early
LastPassEarly(r) == Len(r) < 3

\* line 50
LastPass(r) == Len(r) < 2

\* the working list shortened at its other end
ShrinkBack(r) == SubSeq(r, 1, Len(r) - 1)

\* line 52
Shrink(r) == Tail(r)

\* the answer list returned in the order it was built
ReturnedAsBuilt(a) == a

\* line 53
Returned(a) == Reverse(a)

\* the term cap passed by one
ExceedsBigByTwo(a, big) == a > big + 1

\* line 20
ExceedsBig(a, big) == a > big

\* the length budget overrun by one term
BudgetSpentLate(l) == l = 0 - 1

\* lines 14 and 26
BudgetSpent(l) == l = 0

(* ------------------------------- state --------------------------------- *)

VARIABLES
    pc,        \* "head", "loop", "ended", "approx", "done", "raised"
    vp, vq,    \* the rational vp/vq the value was made from
    val,       \* the float passed to CFrac and CFracApprox
    bigTerm,   \* CFrac's bigTerm argument
    lenArg,    \* CFrac's lenLimit argument as passed
    lenLimit,  \* CFrac's lenLimit, counted down
    n,         \* CFrac's working value
    cf,        \* the terms CFrac has yielded
    why,       \* how CFrac ended: "none", "zero", "big", "len"
    rcf,       \* CFracApprox's working list
    answer,    \* CFracApprox's answer list
    evals,     \* one record per fold CFracApprox has evaluated
    result     \* the list CFracApprox returned

vars == <<pc, vp, vq, val, bigTerm, lenArg, lenLimit, n, cf, why,
          rcf, answer, evals, result>>

Rationals ==
    {pq \in (1..MaxPQ) \X (1..MaxPQ) : GCD(pq[1], pq[2]) = 1} \cup ExtraValues

Init ==
    /\ \E pq \in Rationals :
          /\ vp = pq[1]
          /\ vq = pq[2]
          /\ val = FloatDiv(pq[1], pq[2])
    /\ bigTerm \in BigTerms
    /\ lenArg \in LenLimits
    /\ lenLimit = lenArg
    /\ n = val
    /\ cf = <<>>
    /\ why = "none"
    /\ pc = "head"
    /\ rcf = <<>>
    /\ answer = <<>>
    /\ evals = <<>>
    /\ result = <<>>

ApproxVars == <<rcf, answer, evals, result>>

ArgVars == <<vp, vq, val, bigTerm, lenArg>>

(* ------------------------------- CFrac --------------------------------- *)

\* lines 9-16: the integer part of a value above 1.0 is yielded unchecked
CFracHead ==
    /\ pc = "head"
    /\ IF GtOne(n)
       THEN LET a == IntPart(n)
                b == FracPart(n)
            IN  /\ cf' = Append(cf, a)
                /\ lenLimit' = lenLimit - 1
                /\ IF BudgetSpent(lenLimit - 1)
                   THEN /\ pc' = "ended"
                        /\ why' = "len"
                        /\ n' = n
                   ELSE /\ pc' = "loop"
                        /\ why' = why
                        /\ n' = b
       ELSE /\ pc' = "loop"
            /\ UNCHANGED <<cf, lenLimit, why, n>>
    /\ UNCHANGED <<ArgVars, ApproxVars>>

\* lines 17-27: one pass of the while loop, its test included
CFracStep ==
    /\ pc = "loop"
    /\ IF GtZero(n)
       THEN LET r == Recip(n)
                a == IntPart(r)
                b == FracPart(r)
            IN  IF ExceedsBig(a, bigTerm)
                THEN /\ pc' = "ended"
                     /\ why' = "big"
                     /\ n' = r
                     /\ UNCHANGED <<cf, lenLimit>>
                ELSE /\ cf' = Append(cf, a)
                     /\ n' = b
                     /\ lenLimit' = lenLimit - 1
                     /\ IF BudgetSpent(lenLimit - 1)
                        THEN pc' = "ended" /\ why' = "len"
                        ELSE pc' = "loop" /\ why' = why
       ELSE /\ pc' = "ended"
            /\ why' = "zero"
            /\ UNCHANGED <<cf, lenLimit, n>>
    /\ UNCHANGED <<ArgVars, ApproxVars>>

(* ---------------------------- CFracApprox ------------------------------ *)

\* lines 63-64 and 30-31: the finished term list is handed to CFracApprox
CallApprox ==
    /\ pc = "ended"
    /\ pc' = "approx"
    /\ answer' = <<>>
    /\ rcf' = Reverse(cf)
    /\ UNCHANGED <<ArgVars, lenLimit, n, cf, why, evals, result>>

\* lines 32-53: one pass of the while True loop; the last pass returns
ApproxPass ==
    /\ pc = "approx"
    /\ LET fd   == Fold(rcf)
           num  == fd[1]
           den  == fd[2]
           seen == Append(evals, [terms |-> Len(rcf), num |-> num, den |-> den])
       IN  IF SizeOK(num, den) /\ num = 0
           THEN \* Fraction(den, 0) raises ZeroDivisionError
                /\ pc' = "raised"
                /\ evals' = seen
                /\ UNCHANGED <<rcf, answer, result>>
           ELSE LET f    == Fraction(den, num)
                    err  == ErrCents(FloatDiv(f[1], f[2]), val)
                    keep == SizeOK(num, den) /\ Accurate(err)
                    ans  == IF keep
                            THEN Append(answer, [numer |-> f[1], denom |-> f[2],
                                                 err |-> err, terms |-> Len(rcf)])
                            ELSE answer
                IN  /\ answer' = ans
                    /\ evals' = seen
                    /\ IF LastPass(rcf)
                       THEN /\ pc' = "done"
                            /\ result' = Returned(ans)
                            /\ rcf' = rcf
                       ELSE /\ pc' = "approx"
                            /\ rcf' = Shrink(rcf)
                            /\ result' = result
    /\ UNCHANGED <<ArgVars, lenLimit, n, cf, why>>

Next == CFracHead \/ CFracStep \/ CallApprox \/ ApproxPass

Spec == Init /\ [][Next]_vars

(* ------------------------------ properties ----------------------------- *)

CFracEnded == why # "none"

DefaultBounds == bigTerm = DefaultBigTerm /\ lenArg = DefaultLenLimit

Abs(x) == IF x < 0 THEN 0 - x ELSE x

\* C1 as claimed: CFrac emits at most lenLimit terms and every emitted term,
\* the first included, is at most bigTerm.
C1_EveryTermBounded ==
    /\ Len(cf) <= lenArg
    /\ \A i \in 1..Len(cf) : cf[i] <= bigTerm

\* C1 amended: CFrac terminates having emitted at most lenLimit terms (each
\* emitted term uses up one unit of the budget and the generator only runs
\* on while budget is left), and every emitted term is at most bigTerm
\* except the first term of a value above 1.0, which is the value's integer
\* part and is emitted unchecked.
C1_LaterTermsBounded ==
    /\ Len(cf) <= lenArg
    /\ Len(cf) + lenLimit = lenArg
    /\ (pc \in {"head", "loop"}) => lenLimit > 0
    /\ \A i \in 1..Len(cf) : (i > 1 \/ ~GtOne(val)) => cf[i] <= bigTerm

C1_Witness ==
    /\ CFracEnded
    /\ Len(cf) = lenArg
    /\ Len(cf) >= 2
    /\ cf[1] > bigTerm

\* C2: CFracApprox raises no error for any term sequence CFrac can produce,
\* the empty sequence included.
C2_NeverRaises == pc # "raised"

HasExact(p, q) ==
    \E i \in 1..Len(result) :
        result[i].numer = p /\ result[i].denom = q /\ result[i].err = 0

\* C3: for every p/q > 0 in lowest terms with p, q <= 1024 whose expansion
\* ends on a zero remainder (not cut short by bigTerm or lenLimit), the
\* returned list includes p/q itself with cents error 0.
C3_ExactIncluded ==
    (pc = "done" /\ why = "zero" /\ vp <= SizeLimit /\ vq <= SizeLimit)
        => HasExact(vp, vq)

\* C4: every approximation CFracApprox returns has numerator <= 1024 and
\* denominator <= 1024.
C4_SizeBound ==
    \A i \in 1..Len(result) :
        result[i].numer <= SizeLimit /\ result[i].denom <= SizeLimit

C4_Witness ==
    /\ pc = "done"
    /\ Len(result) > 0
    /\ \E j \in 1..Len(evals) :
          evals[j].den > SizeLimit /\ evals[j].num <= SizeLimit

\* floor(hi/lo * HalfCentUnit) for the larger over the smaller of two floats
\* that are less than a factor two apart
RatioOf(c, v) ==
    LET k == IF c.e < v.e THEN c.e ELSE v.e
        A == Scaled(c, k)
        B == Scaled(v, k)
    IN  IF A >= B THEN RatioFix(A, B) ELSE RatioFix(B, A)

\* c > v
Above(c, v) ==
    LET k == IF c.e < v.e THEN c.e ELSE v.e
    IN  Scaled(c, k) > Scaled(v, k)

\* err is minus the cents from v to c, taken to a whole number by truncation
\* toward zero (off = 0) or by rounding to nearest (off = 1)
CentsAre(c, v, err, off) ==
    LET mag == Abs(err)
        fix == RatioOf(c, v)
    IN  /\ (2 * mag - off >= 1) => HalfCents[2 * mag - off] <= fix
        /\ fix < HalfCents[2 * mag + 2 - off]
        /\ err < 0 => Above(c, v)
        /\ err > 0 => Above(v, c)

\* C5 as claimed: every returned approximation carries
\* err = -round(1200 * (log2(candidate) - log2(value))) and |err| < 30.
C5_RoundedError ==
    \A i \in 1..Len(result) :
        /\ Abs(result[i].err) < CentLimit
        /\ CentsAre(FloatDiv(result[i].numer, result[i].denom), val,
                    result[i].err, 1)

\* C5 amended: every returned approximation carries
\* err = -trunc(1200 * (log2(candidate) - log2(value))), truncated toward
\* zero, and is kept only if err*err < 900, so |err| < 30.
C5_TruncatedError ==
    \A i \in 1..Len(result) :
        /\ Abs(result[i].err) < CentLimit
        /\ CentsAre(FloatDiv(result[i].numer, result[i].denom), val,
                    result[i].err, 0)

\* a returned approximation whose truncated and rounded errors differ
C5_Witness ==
    /\ pc = "done"
    /\ \E i \in 1..Len(result) :
          /\ result[i].err # 0
          /\ ~CentsAre(FloatDiv(result[i].numer, result[i].denom), val,
                       result[i].err, 1)

\* C6: the returned list is strictly ascending in the number of leading
\* terms each approximation uses.
C6_AscendingTerms ==
    \A i, j \in 1..Len(result) : i < j => result[i].terms < result[j].terms

C6_Witness == pc = "done" /\ Len(result) >= 2

\* C7 as claimed: with the default bounds CFrac ends because the remainder
\* reaches zero, after fewer than lenLimit terms.
C7_EndsOnZero ==
    (CFracEnded /\ DefaultBounds)
        => (why = "zero" /\ n = Zero /\ Len(cf) < lenArg)

\* C7 amended: with the default bounds CFrac ends because the remainder
\* reaches zero or because the next term exceeds bigTerm, in both cases after
\* fewer than lenLimit terms, or because lenLimit terms have been emitted.
C7_ThreeEndings ==
    (CFracEnded /\ DefaultBounds)
        => \/ why = "zero" /\ n = Zero /\ Len(cf) < lenArg
           \/ why = "big" /\ IntPart(n) > bigTerm /\ Len(cf) < lenArg
           \/ why = "len" /\ Len(cf) = lenArg

C7_Witness ==
    /\ CFracEnded
    /\ DefaultBounds
    /\ why = "big"
    /\ Len(cf) >= 2
    /\ vp <= MaxPQ

\* the convergent h/k of a term sequence by the forward recurrence
\* h' = a*h + h0, k' = a*k + k0, stopped once h exceeds MaxFold
RECURSIVE ConvFrom(_, _, _, _, _)
ConvFrom(h, k, h0, k0, s) ==
    IF s = <<>> \/ h > MaxFold THEN <<h, k>>
    ELSE ConvFrom(Head(s) * h + h0, Head(s) * k + k0, h, k, Tail(s))

Convergent(s) == ConvFrom(1, 0, 0, 1, s)

\* the pass folded den/num from the given terms
FoldOf(ev, s) ==
    LET hk == Convergent(s)
    IN  IF hk[1] <= MaxFold
        THEN ev.den = hk[1] /\ ev.num = hk[2]
        ELSE ev.den > MaxFold

\* C8 as claimed: the k-th candidate evaluated is the fold of the last k
\* terms, and evaluation stops once the suffix holds all terms but the first.
C8_SuffixFolds ==
    /\ \A k \in 1..Len(evals) :
          k <= Len(cf) => FoldOf(evals[k], SubSeq(cf, Len(cf) - k + 1, Len(cf)))
    /\ (pc = "done" /\ Len(cf) >= 2) => Len(evals) = Len(cf) - 1

\* C8 amended: the candidates are folds of prefixes: the first candidate
\* evaluated is the whole term sequence, each later one drops the last term
\* and is re-folded from (0, 1), and evaluation stops once the first term
\* alone has been evaluated.
C8_PrefixFolds ==
    /\ \A k \in 1..Len(evals) :
          k <= Len(cf) =>
              /\ evals[k].terms = Len(cf) - k + 1
              /\ FoldOf(evals[k], SubSeq(cf, 1, Len(cf) - k + 1))
    /\ (pc = "done" /\ Len(cf) >= 1) => evals[Len(evals)].terms = 1

C8_Witness ==
    /\ pc = "done"
    /\ Len(cf) >= 3
    /\ cf[1] # cf[Len(cf)]
    /\ Len(evals) = Len(cf)

\* C9: for L >= 1 terms the loop ends after exactly L fold evaluations, one
\* for each number of terms from 1 to L and none twice, also when
\* L = lenLimit.
C9_OnePassPerLength ==
    Len(cf) >= 1 =>
        /\ Len(evals) <= Len(cf)
        /\ \A i, j \in 1..Len(evals) : i < j => evals[i].terms # evals[j].terms
        /\ pc = "done" =>
              /\ Len(evals) = Len(cf)
              /\ {evals[k].terms : k \in 1..Len(evals)} = 1..Len(cf)

C9_Witness ==
    /\ pc = "done"
    /\ why = "len"
    /\ Len(cf) = lenArg
    /\ lenArg = DefaultLenLimit
    /\ Len(evals) = lenArg

\* the quotients of the Euclidean algorithm on (p, q), cut at the first
\* quotient after the first that exceeds big, or after budget quotients
RECURSIVE Quotients(_, _, _, _, _)
Quotients(p, q, big, budget, first) ==
    IF q = 0 \/ budget = 0 THEN <<>>
    ELSE IF ~first /\ p \div q > big THEN <<>>
    ELSE <<p \div q>> \o Quotients(q, p % q, big, budget - 1, FALSE)

\* C10: for p/q >= 1 CFrac emits exactly the quotients of the Euclidean
\* algorithm on (p, q), cut only by bigTerm (after the first) or lenLimit.
C10_EuclidQuotients ==
    (CFracEnded /\ vp >= vq) => cf = Quotients(vp, vq, bigTerm, lenArg, TRUE)

====
